---------------------------- MODULE Spec2Model ----------------------------
(***************************************************************************)
(* Model of package dbglog (dbglog.go): a DbgLogger embeds a *log.Logger   *)
(* and adds an enabled flag and a bit mask that gate the Debug* methods.   *)
(*                                                                         *)
(* The sink (the io.Writer handed to New) is modelled as the sequence of   *)
(* the calls that reached the embedded log.Logger; every such call writes  *)
(* one log line.  One logger instance is driven by one caller, which may   *)
(* invoke any method with any arguments in any order.                      *)
(***************************************************************************)
EXTENDS Integers, Sequences, FiniteSets

\* ------------------------------------------------------------------ bounds
\* Width of the modelled bit field (uint64 in the source, narrowed here).
MaskBits == 2
\* Number of log lines the sink accepts before the caller stops calling.
MaxOut == 2

RECURSIVE Pow2(_)
Pow2(n) == IF n = 0 THEN 1 ELSE 2 * Pow2(n - 1)

\* All values of the (narrowed) uint64 type: masks and bits.
Uint == 0 .. (Pow2(MaskBits) - 1)
AllOnes == Pow2(MaskBits) - 1

\* Format strings and variadic value lists a caller may pass.
Formats == {"f"}
ArgLists == {<< >>, <<"x", "y">>}

\* ----------------------------------------------------------------- helpers
\* Go's `&` on uint64: bitwise AND, computed bit by bit.
RECURSIVE BitAnd(_, _)
BitAnd(a, b) ==
    IF a = 0 \/ b = 0 THEN 0
    ELSE (IF a % 2 = 1 /\ b % 2 = 1 THEN 1 ELSE 0) + 2 * BitAnd(a \div 2, b \div 2)

\* Bitwise OR (used only to state what SetMask does NOT do).
RECURSIVE BitOr(_, _)
BitOr(a, b) ==
    IF a = 0 THEN b
    ELSE IF b = 0 THEN a
    ELSE (IF a % 2 = 1 \/ b % 2 = 1 THEN 1 ELSE 0) + 2 * BitOr(a \div 2, b \div 2)

VARIABLES
    enabled,       \* DbgLogger.enabled
    mask,          \* DbgLogger.mask
    out,           \* the sink: the log.Logger calls that wrote a line, in order
    call,          \* the method call the caller made last, with its arguments
    lastToggle,    \* history: the most recent call among Enable/Disable
    enableCalled   \* history: Enable has been called at least once

vars == <<enabled, mask, out, call, lastToggle, enableCalled>>

\* A call record; fields a method does not take hold their zero value.
Call(op, bit, m, format, v) ==
    [op |-> op, bit |-> bit, m |-> m, format |-> format, v |-> v]

\* One line written by the embedded log.Logger.
Line(fn, format, v) == [fn |-> fn, format |-> format, v |-> v]

\* The caller goes on while the sink has room.
Room == Len(out) < MaxOut

\* ------------------------------------------------- embedded *log.Logger
\* d.Printf / d.Print / d.Println: promoted from the embedded logger, they
\* write unconditionally.  (d.Print is named LogPrint here.)
EmitPrintf(format, v) == out' = Append(out, Line("Printf", format, v))
EmitPrint(v) == out' = Append(out, Line("Print", "", v))
EmitPrintln(v) == out' = Append(out, Line("Println", "", v))

Printf_gated(format, v) ==
    /\ Room
    /\ IF enabled THEN EmitPrintf(format, v) ELSE out' = out
    /\ call' = Call("Printf", 0, 0, format, v)
    /\ UNCHANGED <<enabled, mask, lastToggle, enableCalled>>

Printf(format, v) ==
    /\ Room
    /\ EmitPrintf(format, v)
    /\ call' = Call("Printf", 0, 0, format, v)
    /\ UNCHANGED <<enabled, mask, lastToggle, enableCalled>>

LogPrint(v) ==
    /\ Room
    /\ EmitPrint(v)
    /\ call' = Call("Print", 0, 0, "", v)
    /\ UNCHANGED <<enabled, mask, lastToggle, enableCalled>>

Println(v) ==
    /\ Room
    /\ EmitPrintln(v)
    /\ call' = Call("Println", 0, 0, "", v)
    /\ UNCHANGED <<enabled, mask, lastToggle, enableCalled>>

\* ------------------------------------------------------ un-masked debug
Debugf(format, v) ==
    /\ Room
    /\ IF enabled THEN EmitPrintf(format, v) ELSE out' = out
    /\ call' = Call("Debugf", 0, 0, format, v)
    /\ UNCHANGED <<enabled, mask, lastToggle, enableCalled>>

\* The if body is empty; d.Print(v...) follows the if statement.
Debug(v) ==
    /\ Room
    /\ IF enabled THEN TRUE ELSE TRUE
    /\ EmitPrint(v)
    /\ call' = Call("Debug", 0, 0, "", v)
    /\ UNCHANGED <<enabled, mask, lastToggle, enableCalled>>

Debugln_ungated(v) ==
    /\ Room
    /\ EmitPrintln(v)
    /\ call' = Call("Debugln", 0, 0, "", v)
    /\ UNCHANGED <<enabled, mask, lastToggle, enableCalled>>

Debugln(v) ==
    /\ Room
    /\ IF enabled THEN EmitPrintln(v) ELSE out' = out
    /\ call' = Call("Debugln", 0, 0, "", v)
    /\ UNCHANGED <<enabled, mask, lastToggle, enableCalled>>

\* ------------------------------------------------------------- switches
Enable_toggle ==
    /\ Room
    /\ enabled' = ~enabled
    /\ call' = Call("Enable", 0, 0, "", << >>)
    /\ lastToggle' = "Enable"
    /\ enableCalled' = TRUE
    /\ UNCHANGED <<mask, out>>

Enable ==
    /\ Room
    /\ enabled' = TRUE
    /\ call' = Call("Enable", 0, 0, "", << >>)
    /\ lastToggle' = "Enable"
    /\ enableCalled' = TRUE
    /\ UNCHANGED <<mask, out>>

Disable_clearsMask ==
    /\ Room
    /\ enabled' = FALSE
    /\ mask' = 0
    /\ call' = Call("Disable", 0, 0, "", << >>)
    /\ lastToggle' = "Disable"
    /\ UNCHANGED <<out, enableCalled>>

Disable ==
    /\ Room
    /\ enabled' = FALSE
    /\ call' = Call("Disable", 0, 0, "", << >>)
    /\ lastToggle' = "Disable"
    /\ UNCHANGED <<mask, out, enableCalled>>

SetMask_or(m) ==
    /\ Room
    /\ mask' = BitOr(mask, m)
    /\ call' = Call("SetMask", 0, m, "", << >>)
    /\ UNCHANGED <<enabled, out, lastToggle, enableCalled>>

SetMask(m) ==
    /\ Room
    /\ mask' = m
    /\ call' = Call("SetMask", 0, m, "", << >>)
    /\ UNCHANGED <<enabled, out, lastToggle, enableCalled>>

\* --------------------------------------------------------- masked debug
DebugfM_anyBit(bit, format, v) ==
    /\ Room
    /\ IF enabled = TRUE /\ bit # 0 /\ BitAnd(bit, mask) # 0
          THEN EmitPrintf(format, v)
          ELSE out' = out
    /\ call' = Call("DebugfM", bit, 0, format, v)
    /\ UNCHANGED <<enabled, mask, lastToggle, enableCalled>>

DebugfM(bit, format, v) ==
    /\ Room
    /\ IF enabled = TRUE /\ bit # 0 /\ BitAnd(bit, mask) = bit
          THEN EmitPrintf(format, v)
          ELSE out' = out
    /\ call' = Call("DebugfM", bit, 0, format, v)
    /\ UNCHANGED <<enabled, mask, lastToggle, enableCalled>>

DebugM_zeroBit(bit, format, v) ==
    /\ Room
    /\ IF enabled = TRUE /\ BitAnd(bit, mask) = bit
          THEN EmitPrint(v)
          ELSE out' = out
    /\ call' = Call("DebugM", bit, 0, format, v)
    /\ UNCHANGED <<enabled, mask, lastToggle, enableCalled>>

\* The format parameter is accepted and not used: only v reaches d.Print.
DebugM(bit, format, v) ==
    /\ Room
    /\ IF enabled = TRUE /\ bit # 0 /\ BitAnd(bit, mask) = bit
          THEN EmitPrint(v)
          ELSE out' = out
    /\ call' = Call("DebugM", bit, 0, format, v)
    /\ UNCHANGED <<enabled, mask, lastToggle, enableCalled>>

DebuglnM_noEnabled(bit, format, v) ==
    /\ Room
    /\ IF bit # 0 /\ BitAnd(bit, mask) = bit
          THEN EmitPrintln(v)
          ELSE out' = out
    /\ call' = Call("DebuglnM", bit, 0, format, v)
    /\ UNCHANGED <<enabled, mask, lastToggle, enableCalled>>

\* The format parameter is accepted and not used: only v reaches d.Println.
DebuglnM(bit, format, v) ==
    /\ Room
    /\ IF enabled = TRUE /\ bit # 0 /\ BitAnd(bit, mask) = bit
          THEN EmitPrintln(v)
          ELSE out' = out
    /\ call' = Call("DebuglnM", bit, 0, format, v)
    /\ UNCHANGED <<enabled, mask, lastToggle, enableCalled>>

\* ------------------------------------------------------------------ New
\* d := &DbgLogger{} leaves enabled and mask at their zero values; log.New
\* writes nothing.
New ==
    /\ enabled = FALSE
    /\ mask = 0
    /\ out = << >>
    /\ call = Call("New", 0, 0, "", << >>)
    /\ lastToggle = "none"
    /\ enableCalled = FALSE

Init == New

Next ==
    \/ \E f \in Formats, v \in ArgLists : Printf(f, v)
    \/ \E v \in ArgLists : LogPrint(v)
    \/ \E v \in ArgLists : Println(v)
    \/ \E f \in Formats, v \in ArgLists : Debugf(f, v)
    \/ \E v \in ArgLists : Debug(v)
    \/ \E v \in ArgLists : Debugln(v)
    \/ Enable
    \/ Disable
    \/ \E m \in Uint : SetMask(m)
    \/ \E b \in Uint, f \in Formats, v \in ArgLists : DebugfM(b, f, v)
    \/ \E b \in Uint, f \in Formats, v \in ArgLists : DebugM(b, f, v)
    \/ \E b \in Uint, f \in Formats, v \in ArgLists : DebuglnM(b, f, v)

Spec == Init /\ [][Next]_vars

\* ------------------------------------------------------------ properties
MaskedOps == {"DebugfM", "DebugM", "DebuglnM"}
UnmaskedOps == {"Debugf", "Debug", "Debugln"}
PassThroughOps == {"Printf", "Print", "Println"}

\* The step wrote exactly one line to the sink.
Wrote == Len(out') = Len(out) + 1 /\ SubSeq(out', 1, Len(out)) = out
LastLine == out[Len(out)]

\* The values a caller of DebugM / DebuglnM supplies after bit: the one bound
\* to the format parameter, then the variadic ones.
Supplied(c) == <<c.format>> \o c.v

\* C1: a call to DebugfM, DebugM or DebuglnM writes to the sink if and only
\* if enabled is true, bit is not 0 and every bit of bit is set in mask.
C1_MaskedGate ==
    [][call'.op \in MaskedOps =>
         (Wrote <=> (enabled /\ call'.bit # 0
                       /\ BitAnd(call'.bit, mask) = call'.bit))]_vars

\* C1 witness: a multi-bit argument passed an all-ones mask and was written.
C1_Witness ==
    /\ call.op = "DebugfM" /\ call.bit = AllOnes /\ call.bit > 2
    /\ enabled /\ mask = AllOnes
    /\ Len(out) = 1 /\ LastLine = Line("Printf", call.format, call.v)

\* C2: Debug writes nothing while enabled is false (the claim as stated).
C2_DebugGated ==
    [][(call'.op = "Debug" /\ ~enabled) => out' = out]_vars

\* C3: Debugf and Debugln write if and only if the most recent call among
\* Enable/Disable was Enable, whatever the mask.
C3_LastToggleDecides ==
    [][call'.op \in {"Debugf", "Debugln"} =>
         (Wrote <=> lastToggle = "Enable")]_vars

\* C3 witness: Debugln wrote after Enable with an empty mask.
C3_Witness ==
    /\ call.op = "Debugln" /\ lastToggle = "Enable" /\ mask = 0
    /\ Len(out) = 1 /\ LastLine = Line("Println", "", call.v)

\* C4: New yields enabled = false and mask = 0, and until Enable is first
\* called no Debugf, Debugln, DebugfM, DebugM or DebuglnM call writes.
C4_SilentUntilEnable ==
    /\ (enabled = FALSE /\ mask = 0 /\ out = << >>)
    /\ [][(~enableCalled
            /\ call'.op \in (MaskedOps \cup {"Debugf", "Debugln"}))
          => out' = out]_vars

\* C4 witness: a masked call with a bit inside a set mask, before any Enable,
\* left the sink empty.
C4_Witness ==
    /\ ~enableCalled /\ call.op = "DebuglnM" /\ call.bit = 1
    /\ mask = AllOnes /\ out = << >>

\* C5: a masked debug call with bit = 0 never writes.
C5_ZeroBitSilent ==
    [][(call'.op \in MaskedOps /\ call'.bit = 0) => out' = out]_vars

\* C5 witness: DebugM(0, ...) on an enabled logger with an all-ones mask
\* wrote nothing.
C5_Witness ==
    /\ call.op = "DebugM" /\ call.bit = 0 /\ enabled /\ mask = AllOnes
    /\ out = << >>

\* C6: SetMask(m) replaces the mask: right after SetMask(m) the mask is m, and
\* a masked call with a non-zero bit on an enabled logger writes if and only
\* if bit & m = bit, whatever the mask was before.
C6_SetMaskReplaces ==
    [][/\ call'.op = "SetMask" => mask' = call'.m
       /\ (call.op = "SetMask" /\ call'.op \in MaskedOps
             /\ enabled /\ call'.bit # 0)
          => (Wrote <=> BitAnd(call'.bit, call.m) = call'.bit)]_vars

\* C6 witness: SetMask(1) has just replaced a mask on an enabled logger that
\* had already written under an earlier setting.
C6_Witness ==
    /\ call.op = "SetMask" /\ call.m = 1 /\ mask = 1 /\ enabled
    /\ Len(out) = 1 /\ LastLine.fn = "Printf"

\* C7: Printf, Print and Println called on the DbgLogger always write.
C7_PassThroughUngated ==
    [][call'.op \in PassThroughOps =>
         /\ Wrote
         /\ out'[Len(out')] = Line(call'.op, call'.format, call'.v)]_vars

\* C7 witness: Printf wrote on a logger on which Enable was never called.
C7_Witness ==
    /\ call.op = "Printf" /\ ~enableCalled /\ ~enabled /\ mask = 0
    /\ Len(out) = 1 /\ LastLine.fn = "Printf"

\* C8: a second Enable right after an Enable, and a second Disable right
\* after a Disable, change nothing of the logger or the sink.
C8_Idempotent ==
    [][/\ (call.op = "Enable" /\ call'.op = "Enable")
          => (enabled' = enabled /\ mask' = mask /\ out' = out)
       /\ (call.op = "Disable" /\ call'.op = "Disable")
          => (enabled' = enabled /\ mask' = mask /\ out' = out)
       /\ call'.op = "Enable" => enabled'
       /\ call'.op = "Disable" => ~enabled']_vars

\* C8 witness: Enable has acted on a logger with a non-empty mask.
C8_Witness ==
    /\ call.op = "Enable" /\ enabled /\ mask # 0

\* C9: when DebugM or DebuglnM writes, it forwards every value the caller
\* supplied after bit, in order (the claim as stated).
C9_ForwardsAll ==
    [][(call'.op \in {"DebugM", "DebuglnM"} /\ Wrote)
          => out'[Len(out')].v = Supplied(call')]_vars

\* C10: the Debug* calls change neither enabled nor mask; Enable and Disable
\* leave mask alone; SetMask leaves enabled alone; and Enable, Disable and
\* SetMask write nothing.
C10_Frame ==
    [][/\ call'.op \in (UnmaskedOps \cup MaskedOps)
          => (enabled' = enabled /\ mask' = mask)
       /\ call'.op \in {"Enable", "Disable"}
          => (mask' = mask /\ out' = out)
       /\ call'.op = "SetMask"
          => (enabled' = enabled /\ out' = out)]_vars

\* C10 witness: Disable has acted on a logger with a mask set and a line
\* already in the sink, and both are still there.
C10_Witness ==
    /\ call.op = "Disable" /\ ~enabled /\ mask = AllOnes /\ Len(out) = 1

=============================================================================
